---------------------------- MODULE Spec2Model ----------------------------
(***************************************************************************)
(* A model of the TCP peer of the catnip stack                             *)
(* (src/rust/catnip/src/protocols/tcp/peer/mod.rs): the registry of        *)
(* active connections, the pool of private ports, the open ports, the      *)
(* tracker of asynchronous work, and the operations receive, connect,      *)
(* acquire_private_port, release_private_port and poll; and of the engine  *)
(* above it (src/rust/catnip/src/engine.rs): its list of listening         *)
(* descriptors and the operations receive, tcp_listen, tcp_close and       *)
(* advance_clock.  The socket table behind the engine's descriptors and    *)
(* the tracker's poll are not part of the sources modelled here; they      *)
(* follow the specification of the stack.                                  *)
(*                                                                         *)
(* Scaling.  The port space 0..65535 is scaled down to 0..LastPort, with   *)
(* the private range FirstPrivatePort..LastPort.  As in TcpPeer::new the   *)
(* pool holds the private ports below the last one (the Rust range         *)
(* first_private_port..65535 excludes 65535).  32-bit sequence numbers     *)
(* keep their width: a u32 is a pair <<hi, lo>> of 16-bit limbs, because   *)
(* 2^32 does not fit the model checker's integers.                         *)
(*                                                                         *)
(* A panic (assert!, unimplemented!) aborts the peer: the variable         *)
(* panicked becomes TRUE, the mutations made before the panic stay, and no *)
(* operation runs afterwards.  A call that never returns is recorded with  *)
(* the result "hang" and is never handed back to the caller.               *)
(***************************************************************************)
EXTENDS Integers, Sequences, FiniteSets

VARIABLES
    active_connections,       \* HashMap<ipv4::Endpoint, TcpConnection>
    available_private_ports,  \* VecDeque<ip::Port>
    connections,              \* HashMap<TcpConnectionId, TcpConnection>
    listening_on_ports,       \* HashSet<ip::Port>
    open_ports,               \* HashSet<ip::Port>
    async_work,               \* WhenAny: the enrolled units, in order of enrolment
    completed,                \* the number of units the tracker has polled to completion
    listening,                \* Engine2::listening: Vec<SocketDescriptor>
    sockets,                  \* the sockets behind the descriptors 1..Len(sockets)
    clock,                    \* the runtime's logical clock
    panicked,                 \* the process has aborted
    last                      \* the call that has just returned, or NoCall

vars == <<active_connections, available_private_ports, connections,
          listening_on_ports, open_ports, async_work, completed,
          listening, sockets, clock, panicked, last>>

peer == <<active_connections, available_private_ports, connections,
          listening_on_ports, open_ports>>

\* The engine's own state and the sockets its descriptors name.
engine == <<listening, sockets, clock>>

-----------------------------------------------------------------------------
(* Bounds and constants *)

\* The largest port of the scaled port space (65535 in the source).
LastPort == 4

\* ip::Port::first_private_port() (49152 in the source), scaled.
FirstPrivatePort == 2

\* The largest payload length of an inbound segment.
MaxPayload == 1

\* RST transmissions that may be enrolled and not yet polled.
MaxRst == 1

\* One limb of a u32: 2^16.
Limb == 65536

Ports == 1..LastPort

PublicPort == FirstPrivatePort - 1

\* The ports TcpPeer::new puts into the pool.
PoolPorts == FirstPrivatePort..(LastPort - 1)

my_ipv4_addr == "10.0.0.1"

UnicastAddrs == {"10.0.0.2", "10.0.0.3"}

BroadcastAddr == "255.255.255.255"

MulticastAddr == "224.0.0.1"

UnspecifiedAddr == "0.0.0.0"

SourceAddrs == {"10.0.0.2", BroadcastAddr, MulticastAddr, UnspecifiedAddr}

is_broadcast(a) == a = BroadcastAddr

is_multicast(a) == a = MulticastAddr

is_unspecified(a) == a = UnspecifiedAddr

is_private(p) == p >= FirstPrivatePort

Endpoint(a, p) == [address |-> a, port |-> p]

\* The remote endpoints connect is called with.
Remotes == {Endpoint(a, PublicPort) : a \in UnicastAddrs}

\* The remote endpoint the sequence datagrams come from.
SeqRemotes == {Endpoint("10.0.0.2", PublicPort)}

\* More remote endpoints than the pool has ports.
PoolRemotes == {Endpoint(a, p) : a \in UnicastAddrs, p \in {PublicPort, FirstPrivatePort}}

-----------------------------------------------------------------------------
(* Wrapping<u32> *)

U32Zero == <<0, 0>>

U32Max == <<Limb - 1, Limb - 1>>

\* u32::try_from(n) for a length n below 2^16.
U32From(n) == <<0, n>>

\* Wrapping(a) + Wrapping(b)
WrappingAdd(a, b) ==
    LET lo == a[2] + b[2]
        hi == a[1] + b[1] + (lo \div Limb)
    IN  <<hi % Limb, lo % Limb>>

-----------------------------------------------------------------------------
(* Connections, ISNs, segments and units of work *)

TcpConnectionId(local, remote) == [local |-> local, remote |-> remote]

\* TcpConnection::new(cxn_id): a connection opened actively starts in SynSent.
TcpConnectionNew(cxn_id) == [id |-> cxn_id, state |-> "SynSent"]

AddrCode(a) == IF a = "10.0.0.2" THEN 2 ELSE IF a = "10.0.0.3" THEN 3 ELSE 0

\* The secret of the ISN generator.
IsnSecret == <<Limb - 1, Limb - 1 - (LastPort + FirstPrivatePort)>>

\* IsnGenerator::next(&cxn_id): derived from the secret and the connection id.
IsnGeneratorNext(cxn_id) ==
    WrappingAdd(IsnSecret,
                <<AddrCode(cxn_id.remote.address),
                  cxn_id.remote.port * LastPort + cxn_id.local.port>>)

\* TcpSegment::default()
TcpSegmentDefault ==
    [src_ipv4_addr |-> "none", src_port |-> 0,
     dest_ipv4_addr |-> "none", dest_port |-> 0,
     seq_num |-> U32Zero, ack_num |-> U32Zero,
     syn |-> FALSE, rst |-> FALSE, mss |-> "none"]

\* The unit of work rt.cast(segment) returns.
Cast(segment) == [kind |-> "cast", segment |-> segment]

\* The unit of work rt.start_coroutine(|| await cast(segment)) returns.
Coroutine(segment) == [kind |-> "coroutine", segment |-> segment]

\* The number of enrolled units that transmit an RST.
RstCount(work) == Cardinality({i \in 1..Len(work) : work[i].segment.rst})

-----------------------------------------------------------------------------
(* Inbound datagrams *)

Datagram(src_addr, src_port, dest_port, seq_num, ack_num, syn, ack, rst, len) ==
    [src_addr |-> src_addr, src_port |-> src_port, dest_port |-> dest_port,
     seq_num |-> seq_num, ack_num |-> ack_num,
     syn |-> syn, ack |-> ack, rst |-> rst, len |-> len]

\* Every class of source address, a zero and a non-zero source port, a zero, a
\* public and a private destination port.
DispatchDatagrams ==
    {Datagram(a, sp, dp, U32Zero, U32Zero, syn, FALSE, rst, 0) :
        a \in SourceAddrs, sp \in {0, PublicPort},
        dp \in {0, PublicPort, FirstPrivatePort},
        syn \in BOOLEAN, rst \in BOOLEAN}

\* Every flag combination, to a public, a pooled and the last private port.
FlagDatagrams ==
    {Datagram("10.0.0.2", PublicPort, dp, U32Zero, U32Zero, syn, ack, rst, 0) :
        dp \in {PublicPort, FirstPrivatePort, LastPort},
        syn \in BOOLEAN, ack \in BOOLEAN, rst \in BOOLEAN}

\* The SYN+ACK a remote answers a SYN with: it acknowledges ISN + 1.
HandshakeDatagrams ==
    {Datagram(r.address, r.port, p, U32Max,
              WrappingAdd(IsnGeneratorNext(
                  TcpConnectionId(Endpoint(my_ipv4_addr, p), r)), U32From(1)),
              TRUE, TRUE, FALSE, 0) :
        r \in Remotes, p \in PoolPorts}

Datagrams == DispatchDatagrams \cup FlagDatagrams \cup HandshakeDatagrams

\* Sequence numbers at and around the 16-bit and 32-bit carries.
SeqNums == {U32Zero, <<0, Limb - 1>>, U32Max}

\* Segments with a payload, with and without SYN and RST.
SequenceDatagrams ==
    {Datagram("10.0.0.2", sp, dp, seq, U32Zero, syn, FALSE, rst, len) :
        sp \in {0, PublicPort}, dp \in {PublicPort, FirstPrivatePort},
        seq \in SeqNums, syn \in BOOLEAN, rst \in BOOLEAN, len \in 0..MaxPayload}

-----------------------------------------------------------------------------
(* The initial state: TcpPeer::new *)

\* ports.shuffle(rng): every order of the pool.
Shuffles(S) ==
    {q \in [1..Cardinality(S) -> S] : \A i, j \in 1..Cardinality(S) : q[i] = q[j] => i = j}

\* A call that has returned: its argument, its result, and what it handed out
\* (the port acquired, the effects emitted).
Call(op, arg, result, out) == [op |-> op, arg |-> arg, result |-> result, out |-> out]

NoCall == Call("none", "none", "none", "none")

Init ==
    /\ active_connections = <<>>
    /\ available_private_ports \in Shuffles(PoolPorts)
    /\ connections = <<>>
    /\ listening_on_ports = {}
    /\ open_ports = {}
    /\ async_work = <<>>
    /\ completed = 0
    /\ listening = <<>>
    /\ sockets = <<>>
    /\ clock = 0
    /\ panicked = FALSE
    /\ last = NoCall

\* The peer takes calls one at a time, and none after a panic.
Idle == ~panicked /\ last.op = "none"

\* The call returns an error and leaves the peer as it was.
Fail(op, arg, result) ==
    /\ last' = Call(op, arg, result, "none")
    /\ UNCHANGED <<peer, async_work, panicked>>

\* The caller takes the result of the call, unless the call aborted or never
\* returns.
ReturnToCaller ==
    /\ ~panicked
    /\ last.op # "none"
    /\ last.result # "hang"
    /\ last' = NoCall
    /\ UNCHANGED <<peer, async_work, completed, engine, panicked>>

-----------------------------------------------------------------------------
(* TcpPeer::receive *)

\* The ACK number without the sequence number the SYN occupies.
RstAckNumNoSyn(d) == WrappingAdd(d.seq_num, U32From(d.len))

\* The ACK number of the RST that answers a segment to a closed port.
RstAckNum(d) ==
    LET ack_num == WrappingAdd(d.seq_num, U32From(d.len))
    IN  IF d.syn THEN WrappingAdd(ack_num, U32From(1)) ELSE ack_num

\* The RST segment built for datagram d.
RstSegment(d) ==
    [TcpSegmentDefault EXCEPT
        !.dest_ipv4_addr = d.src_addr,
        !.dest_port = d.src_port,
        !.src_port = d.dest_port,
        !.ack_num = RstAckNum(d),
        !.rst = TRUE]

\* The destination port is open.
ReceiveOpenPort(d) ==
    IF d.rst
    THEN /\ last' = Call("receive", d, "Ok", <<"ConnectionRefused">>)
         /\ UNCHANGED <<peer, async_work, panicked>>
    ELSE \* unimplemented!()
         /\ panicked' = TRUE
         /\ last' = Call("receive", d, "panic", "none")
         /\ UNCHANGED <<peer, async_work>>

\* The answer to a closed port that also marks the port open.
ReceiveClosedPortOpens(d) ==
    IF d.src_port = 0
    THEN Fail("receive", d, "Malformed")
    ELSE /\ RstCount(async_work) < MaxRst
         /\ async_work' = Append(async_work, Cast(RstSegment(d)))
         /\ open_ports' = open_ports \cup {d.dest_port}
         /\ last' = Call("receive", d, "Ok", <<>>)
         /\ UNCHANGED <<active_connections, available_private_ports, connections,
                        listening_on_ports, panicked>>

\* The destination port is not open.
ReceiveClosedPort(d) ==
    IF d.src_port = 0
    THEN Fail("receive", d, "Malformed")
    ELSE /\ RstCount(async_work) < MaxRst
         /\ async_work' = Append(async_work, Cast(RstSegment(d)))
         /\ last' = Call("receive", d, "Ok", <<>>)
         /\ UNCHANGED <<peer, panicked>>

Receive(d) ==
    /\ Idle
    /\ IF is_broadcast(d.src_addr) \/ is_multicast(d.src_addr) \/ is_unspecified(d.src_addr)
       THEN Fail("receive", d, "Malformed")
       ELSE IF d.dest_port = 0
       THEN Fail("receive", d, "Malformed")
       ELSE IF d.dest_port \in open_ports
       THEN ReceiveOpenPort(d)
       ELSE ReceiveClosedPort(d)
    /\ UNCHANGED <<completed, engine>>

-----------------------------------------------------------------------------
(* The pool of private ports *)

\* A pop_front that falls back to the first private port on an empty pool.
acquire_private_port_or_first(q) ==
    IF q # <<>>
    THEN [ok |-> TRUE, port |-> Head(q), rest |-> Tail(q)]
    ELSE [ok |-> TRUE, port |-> FirstPrivatePort, rest |-> q]

\* VecDeque::pop_front on the pool q.
acquire_private_port(q) ==
    IF q # <<>>
    THEN [ok |-> TRUE, port |-> Head(q), rest |-> Tail(q)]
    ELSE [ok |-> FALSE, port |-> 0, rest |-> q]

\* acquire_private_port called on its own.
AcquirePrivatePort ==
    /\ Idle
    /\ LET got == acquire_private_port(available_private_ports)
       IN  /\ available_private_ports' = got.rest
           /\ last' = Call("acquire", "none",
                           IF got.ok THEN "Ok" ELSE "ResourceExhausted", got.port)
    /\ UNCHANGED <<active_connections, connections, listening_on_ports,
                   open_ports, async_work, completed, engine, panicked>>

\* release_private_port(port).  The queue is kept from growing past the size
\* of the initial pool.
ReleasePrivatePort(port) ==
    /\ Idle
    /\ Len(available_private_ports) < Cardinality(PoolPorts)
    /\ IF is_private(port)
       THEN /\ available_private_ports' = Append(available_private_ports, port)
            /\ last' = Call("release", port, "Ok", "none")
            /\ UNCHANGED <<active_connections, connections, listening_on_ports,
                           open_ports, async_work, panicked>>
       ELSE \* assert!(port.is_private())
            /\ panicked' = TRUE
            /\ last' = Call("release", port, "panic", "none")
            /\ UNCHANGED <<peer, async_work>>
    /\ UNCHANGED <<completed, engine>>

-----------------------------------------------------------------------------
(* TcpPeer::connect *)

\* HashMap::insert(key, value)
Insert(map, key, value) ==
    [k \in DOMAIN map \cup {key} |-> IF k = key THEN value ELSE map[k]]

\* A SYN segment built without .seq_num(isn).
SynSegmentNoSeq(cxn_id, isn) ==
    [TcpSegmentDefault EXCEPT
        !.src_ipv4_addr = cxn_id.local.address,
        !.src_port = cxn_id.local.port,
        !.dest_ipv4_addr = cxn_id.remote.address,
        !.dest_port = cxn_id.remote.port,
        !.mss = "DEFAULT_MSS",
        !.syn = TRUE]

\* The SYN segment of the connection cxn_id.
SynSegment(cxn_id, isn) ==
    [TcpSegmentDefault EXCEPT
        !.src_ipv4_addr = cxn_id.local.address,
        !.src_port = cxn_id.local.port,
        !.dest_ipv4_addr = cxn_id.remote.address,
        !.dest_port = cxn_id.remote.port,
        !.seq_num = isn,
        !.mss = "DEFAULT_MSS",
        !.syn = TRUE]

StartActiveConnection(remote_endpoint) ==
    LET got == acquire_private_port(available_private_ports)
        local_port == got.port
        cxn_id == TcpConnectionId(Endpoint(my_ipv4_addr, local_port), remote_endpoint)
        isn == IsnGeneratorNext(cxn_id)
        cxn == TcpConnectionNew(cxn_id)
    IN  IF ~got.ok
        THEN Fail("connect", remote_endpoint, "ResourceExhausted")
        ELSE /\ available_private_ports' = got.rest
             /\ active_connections' = Insert(active_connections, remote_endpoint, cxn)
             /\ UNCHANGED <<connections, listening_on_ports>>
             /\ IF remote_endpoint \in DOMAIN active_connections
                THEN \* assert!(active_connections.insert(..).is_none())
                     /\ panicked' = TRUE
                     /\ last' = Call("connect", remote_endpoint, "panic", "none")
                     /\ UNCHANGED <<open_ports, async_work>>
                ELSE IF local_port \in open_ports
                THEN \* assert!(open_ports.replace(local_port).is_none())
                     /\ panicked' = TRUE
                     /\ last' = Call("connect", remote_endpoint, "panic", "none")
                     /\ UNCHANGED <<open_ports, async_work>>
                ELSE /\ open_ports' = open_ports \cup {local_port}
                     /\ async_work' = Append(async_work, Coroutine(SynSegment(cxn_id, isn)))
                     /\ last' = Call("connect", remote_endpoint, "Ok", "none")
                     /\ UNCHANGED panicked

Connect(remote_endpoint) ==
    /\ Idle
    /\ StartActiveConnection(remote_endpoint)
    /\ UNCHANGED <<completed, engine>>

-----------------------------------------------------------------------------
(* TcpPeer::poll *)

\* WhenAny::poll as the stack's specification has it: with nothing enrolled
\* the answer is None; otherwise the units are polled in the order of their
\* enrolment, the first one completes (a cast or a SYN transmission is ready
\* when polled), it is removed and its result returned, and the other units
\* stay enrolled.
WhenAnyPoll(work) ==
    IF work = <<>>
    THEN [result |-> "None", work |-> work]
    ELSE [result |-> "Some(Ok)", work |-> Tail(work)]

\* A poll that forgets the units still pending when one completes.
PollDiscardsPending ==
    /\ Idle
    /\ async_work' = <<>>
    /\ completed' = completed + (IF async_work = <<>> THEN 0 ELSE 1)
    /\ last' = Call("poll", "none", WhenAnyPoll(async_work).result, "none")
    /\ UNCHANGED <<peer, engine, panicked>>

\* poll(now): self.async_work.poll(now), the result mapped to ().
Poll ==
    /\ Idle
    /\ LET polled == WhenAnyPoll(async_work)
       IN  /\ async_work' = polled.work
           /\ completed' = completed + (Len(async_work) - Len(polled.work))
           /\ last' = Call("poll", "none", polled.result, "none")
    /\ UNCHANGED <<peer, engine, panicked>>

-----------------------------------------------------------------------------
(* The sockets behind the engine's descriptors *)

\* Descriptors the engine may hold at a time.
MaxSockets == 2

\* Completed handshakes that may wait on one listening socket.
MaxBacklog == 1

\* The latest instant of the logical clock.
MaxClock == 1

\* The ports the application listens on: a public port, and the last port,
\* which is private and never in the pool.
ListenPorts == {PublicPort, LastPort}

ListeningSocket(port) == [state |-> "listening", port |-> port, backlog |-> 0]

EstablishedSocket(port) == [state |-> "established", port |-> port, backlog |-> 0]

ClosedSocket == [state |-> "closed", port |-> 0, backlog |-> 0]

\* Does descriptor fd name a listening socket of the table socks?
IsListening(socks, fd) == fd \in DOMAIN socks /\ socks[fd].state = "listening"

\* ipv4.tcp_accept(fd): an error for a descriptor that is not listening;
\* otherwise it dequeues one completed handshake and gives it a descriptor of
\* its own, or reports that none is ready.
Ipv4TcpAccept(socks, fd) ==
    IF ~IsListening(socks, fd)
    THEN [result |-> "Err", fd |-> 0, sockets |-> socks]
    ELSE IF socks[fd].backlog > 0
    THEN [result |-> "Some",
          fd |-> Len(socks) + 1,
          sockets |-> Append([socks EXCEPT ![fd].backlog = @ - 1],
                             EstablishedSocket(socks[fd].port))]
    ELSE [result |-> "None", fd |-> 0, sockets |-> socks]

\* A remote completes a handshake on the listening socket fd.
InboundConnection(fd) ==
    /\ Idle
    /\ IsListening(sockets, fd)
    /\ sockets[fd].backlog < MaxBacklog
    /\ sockets' = [sockets EXCEPT ![fd].backlog = @ + 1]
    /\ UNCHANGED <<peer, async_work, completed, listening, clock, panicked, last>>

-----------------------------------------------------------------------------
(* Engine2::receive *)

LocalLinkAddr == "02:00:00:00:00:01"

OtherLinkAddr == "02:00:00:00:00:02"

BroadcastLinkAddr == "ff:ff:ff:ff:ff:ff"

LinkAddrs == {LocalLinkAddr, OtherLinkAddr, BroadcastLinkAddr}

\* MacAddress::is_broadcast
link_is_broadcast(a) == a = BroadcastLinkAddr

\* The EtherTypes of the match, and one that ether_type() does not know.
EtherTypes == {"Arp", "Ipv4", "Unsupported"}

\* What the ARP peer or the IPv4 peer answers for a frame handed to it.
PeerResults == {"Ok", "Ignored"}

\* The bytes of a frame: attached says whether Frame::attach accepts them.
Frames == [attached : BOOLEAN, dest_addr : LinkAddrs, ether_type : EtherTypes]

\* The call returns without touching the engine or the peers; handed lists
\* the peers the frame was given to.
EngineReceiveReturns(frame, result, handed) ==
    /\ last' = Call("engine_receive", frame, result, handed)
    /\ UNCHANGED <<peer, async_work, completed, engine, panicked>>

\* A receive that takes broadcast frames for misdelivered ones.
EngineReceiveUnicastOnly(frame) ==
    /\ Idle
    /\ IF ~frame.attached
       THEN EngineReceiveReturns(frame, "Malformed", <<>>)
       ELSE IF LocalLinkAddr # frame.dest_addr
       THEN EngineReceiveReturns(frame, "Misdelivered", <<>>)
       ELSE IF frame.ether_type = "Arp"
       THEN \E r \in PeerResults : EngineReceiveReturns(frame, r, <<"arp">>)
       ELSE IF frame.ether_type = "Ipv4"
       THEN \E r \in PeerResults : EngineReceiveReturns(frame, r, <<"ipv4">>)
       ELSE EngineReceiveReturns(frame, "Unsupported", <<>>)

\* receive(bytes)
EngineReceive(frame) ==
    /\ Idle
    /\ IF ~frame.attached
       THEN EngineReceiveReturns(frame, "Malformed", <<>>)
       ELSE IF LocalLinkAddr # frame.dest_addr /\ ~link_is_broadcast(frame.dest_addr)
       THEN EngineReceiveReturns(frame, "Misdelivered", <<>>)
       ELSE IF frame.ether_type = "Arp"
       THEN \E r \in PeerResults : EngineReceiveReturns(frame, r, <<"arp">>)
       ELSE IF frame.ether_type = "Ipv4"
       THEN \E r \in PeerResults : EngineReceiveReturns(frame, r, <<"ipv4">>)
       ELSE EngineReceiveReturns(frame, "Unsupported", <<>>)

-----------------------------------------------------------------------------
(* Engine2::tcp_listen and Engine2::tcp_close *)

\* tcp_listen(port): self.listening.push(self.ipv4.tcp_listen(port)?).  The
\* IPv4 peer refuses a port that is listening already; otherwise it marks
\* the port as listening and hands out the next descriptor.
TcpListen(port) ==
    /\ Idle
    /\ Len(sockets) < MaxSockets
    /\ IF port \in listening_on_ports
       THEN /\ Fail("tcp_listen", port, "AddressInUse")
            /\ UNCHANGED <<completed, engine>>
       ELSE /\ sockets' = Append(sockets, ListeningSocket(port))
            /\ listening_on_ports' = listening_on_ports \cup {port}
            /\ listening' = Append(listening, Len(sockets) + 1)
            /\ last' = Call("tcp_listen", port, "Ok", "none")
            /\ UNCHANGED <<active_connections, available_private_ports, connections,
                           open_ports, async_work, completed, clock, panicked>>

\* tcp_close(socket_fd): self.ipv4.tcp_close(socket_fd).  The IPv4 peer
\* refuses a descriptor that is not open; otherwise it closes the socket and,
\* for a listener, stops listening on its port.
TcpClose(socket_fd) ==
    /\ Idle
    /\ IF socket_fd \notin DOMAIN sockets \/ sockets[socket_fd].state = "closed"
       THEN /\ Fail("tcp_close", socket_fd, "BadFileDescriptor")
            /\ UNCHANGED <<completed, engine>>
       ELSE /\ sockets' = [sockets EXCEPT ![socket_fd] = ClosedSocket]
            /\ listening_on_ports' =
                   IF sockets[socket_fd].state = "listening"
                   THEN listening_on_ports \ {sockets[socket_fd].port}
                   ELSE listening_on_ports
            /\ last' = Call("tcp_close", socket_fd, "Ok", "none")
            /\ UNCHANGED <<active_connections, available_private_ports, connections,
                           open_ports, async_work, completed, listening, clock, panicked>>

-----------------------------------------------------------------------------
(* Engine2::advance_clock *)

\* One step a call of advance_clock takes, in the order it takes them.
Step(name, fd) == [step |-> name, fd |-> fd]

RECURSIVE AcceptLoopClosesIdle(_, _, _)
\* A loop that closes a listening socket on which nothing is ready.
AcceptLoopClosesIdle(i, socks, trace) ==
    IF i > Len(listening)
    THEN [result |-> "Ok", sockets |-> socks, trace |-> trace]
    ELSE LET socket_fd == listening[i]
             accepted == Ipv4TcpAccept(socks, socket_fd)
             called == Append(trace, Step("tcp_accept", socket_fd))
         IN  IF accepted.result = "Some"
             THEN [result |-> "panic", sockets |-> accepted.sockets, trace |-> called]
             ELSE IF accepted.result = "None"
             THEN AcceptLoopClosesIdle(i + 1, [socks EXCEPT ![socket_fd] = ClosedSocket], called)
             ELSE [result |-> "hang", sockets |-> socks, trace |-> called]

RECURSIVE AcceptLoop(_, _, _)
\* for &socket_fd in &self.listening { loop { match tcp_accept(socket_fd) } },
\* from the i-th descriptor on.  Ok(Some(fd)) reaches todo!(), which aborts
\* after the peer has dequeued the connection; Ok(None) breaks to the next
\* descriptor; Err(e) is logged and the same descriptor is tried again, with
\* nothing changed and so with the same error, without end.
AcceptLoop(i, socks, trace) ==
    IF i > Len(listening)
    THEN [result |-> "Ok", sockets |-> socks, trace |-> trace]
    ELSE LET socket_fd == listening[i]
             accepted == Ipv4TcpAccept(socks, socket_fd)
             called == Append(trace, Step("tcp_accept", socket_fd))
         IN  IF accepted.result = "Some"
             THEN [result |-> "panic", sockets |-> accepted.sockets, trace |-> called]
             ELSE IF accepted.result = "None"
             THEN AcceptLoop(i + 1, socks, called)
             ELSE [result |-> "hang", sockets |-> socks, trace |-> called]

\* A tick that polls the IPv4 peer before the ARP peer.
AdvanceClockIpv4First(now) ==
    /\ Idle
    /\ LET polled == WhenAnyPoll(async_work)
           drained == AcceptLoop(1, sockets,
                          <<Step("clock", 0), Step("ipv4", 0), Step("arp", 0)>>)
       IN  /\ clock' = now
           /\ async_work' = polled.work
           /\ completed' = completed + (Len(async_work) - Len(polled.work))
           /\ sockets' = drained.sockets
           /\ panicked' = (drained.result = "panic")
           /\ last' = Call("advance_clock", now, drained.result, drained.trace)
    /\ UNCHANGED <<peer, listening>>

\* advance_clock(now): the clock is set, the ARP peer is polled, the IPv4
\* peer is polled (it polls the TCP peer, and is itself pending for ever, so
\* that neither assert! fails), and the listening descriptors are drained.
AdvanceClock(now) ==
    /\ Idle
    /\ LET polled == WhenAnyPoll(async_work)
           drained == AcceptLoop(1, sockets,
                          <<Step("clock", 0), Step("arp", 0), Step("ipv4", 0)>>)
       IN  /\ clock' = now
           /\ async_work' = polled.work
           /\ completed' = completed + (Len(async_work) - Len(polled.work))
           /\ sockets' = drained.sockets
           /\ panicked' = (drained.result = "panic")
           /\ last' = Call("advance_clock", now, drained.result, drained.trace)
    /\ UNCHANGED <<peer, listening>>

-----------------------------------------------------------------------------
(* Specifications *)

\* Datagrams of every class arrive and connections are opened.
Next ==
    \/ \E d \in Datagrams : Receive(d)
    \/ \E r \in Remotes : Connect(r)
    \/ ReturnToCaller

Spec == Init /\ [][Next]_vars

\* Segments with payloads and sequence numbers at the carries arrive.
NextSeq ==
    \/ \E d \in SequenceDatagrams : Receive(d)
    \/ \E r \in SeqRemotes : Connect(r)
    \/ ReturnToCaller

SpecSeq == Init /\ [][NextSeq]_vars

\* Connections are opened and ports acquired and released.
NextPool ==
    \/ \E r \in PoolRemotes : Connect(r)
    \/ AcquirePrivatePort
    \/ \E p \in Ports : ReleasePrivatePort(p)
    \/ ReturnToCaller

SpecPool == Init /\ [][NextPool]_vars

\* The engine listens, closes and ticks while remotes complete handshakes,
\* frames arrive and a connection is opened.
NextEngine ==
    \/ \E port \in ListenPorts : TcpListen(port)
    \/ \E fd \in 1..MaxSockets : TcpClose(fd)
    \/ \E fd \in 1..MaxSockets : InboundConnection(fd)
    \/ \E now \in 0..MaxClock : AdvanceClock(now)
    \/ \E frame \in Frames : EngineReceive(frame)
    \/ \E r \in SeqRemotes : Connect(r)
    \/ ReturnToCaller

SpecEngine == Init /\ [][NextEngine]_vars

\* Units of work that may be enrolled in the course of one behaviour.
MaxUnits == 3

\* Segments to a port that is not open: each is answered with an RST.
LiveDatagrams ==
    {Datagram("10.0.0.2", PublicPort, PublicPort, U32Zero, U32Zero, syn, FALSE, FALSE, 0) :
        syn \in BOOLEAN}

\* Work is enrolled by connect and by receive and polled by poll and by the
\* engine's tick.
NextLive ==
    \/ \E d \in LiveDatagrams : completed + Len(async_work) < MaxUnits /\ Receive(d)
    \/ \E r \in Remotes : completed + Len(async_work) < MaxUnits /\ Connect(r)
    \/ Poll
    \/ \E now \in 0..MaxClock : AdvanceClock(now)
    \/ ReturnToCaller

\* The embedder keeps calling poll: every call returns to it (there is one
\* thread of control), and it calls poll again and again between its other
\* calls.
SpecLive ==
    /\ Init
    /\ [][NextLive]_vars
    /\ WF_vars(ReturnToCaller)
    /\ SF_vars(Poll)

-----------------------------------------------------------------------------
(* Properties *)

IsUnicast(a) == ~(a = BroadcastAddr \/ a = MulticastAddr \/ a = UnspecifiedAddr)

\* seq + len + (1 if SYN) modulo 2^32, in limbs.
ExpectedAck(d) ==
    LET sum == d.seq_num[2] + d.len + (IF d.syn THEN 1 ELSE 0)
    IN  <<(d.seq_num[1] + (sum \div Limb)) % Limb, sum % Limb>>

\* The tracker gains exactly one unit, at its end.
EnrolsOne == Len(async_work') = Len(async_work) + 1 /\ SubSeq(async_work', 1, Len(async_work)) = async_work

Enrolled == async_work'[Len(async_work')]

\* C1: receive never panics: it returns Ok or a typed error for every datagram
\* in every state of the peer.
C1_ReceiveNeverPanics ==
    last.op = "receive" => last.result \in {"Ok", "Malformed"}

\* C2: a connect to a remote that already has a connection returns a
\* duplicate-connection error, keeps the first connection's entry, enrols no
\* SYN and does not abort.
C2_DuplicateConnectRejected ==
    [][(/\ last'.op = "connect"
        /\ available_private_ports # <<>>
        /\ last'.arg \in DOMAIN active_connections)
       => (/\ last'.result = "DuplicateConnection"
           /\ ~panicked'
           /\ active_connections'[last'.arg] = active_connections[last'.arg]
           /\ async_work' = async_work)]_vars

\* C3: a segment without RST from a unicast source, with non-zero ports, to a
\* port that is not open makes receive return Ok and enrol exactly one unit: an
\* RST to the sender's address and port, from the destination port, with ACK
\* number seq + len + (1 if SYN) modulo 2^32.
C3_ClosedPortRst ==
    [][(/\ last'.op = "receive"
        /\ IsUnicast(last'.arg.src_addr)
        /\ last'.arg.src_port # 0
        /\ last'.arg.dest_port # 0
        /\ last'.arg.dest_port \notin open_ports
        /\ ~last'.arg.rst)
       => (/\ last'.result = "Ok"
           /\ EnrolsOne
           /\ Enrolled.segment.rst
           /\ ~Enrolled.segment.syn
           /\ Enrolled.segment.dest_ipv4_addr = last'.arg.src_addr
           /\ Enrolled.segment.dest_port = last'.arg.src_port
           /\ Enrolled.segment.src_port = last'.arg.dest_port
           /\ Enrolled.segment.ack_num = ExpectedAck(last'.arg))]_vars

\* C3 witness: a SYN with a payload and the largest sequence number reached a
\* closed port while a connection was open, and the RST's ACK number wrapped.
C3_Witness ==
    /\ last.op = "receive"
    /\ last.result = "Ok"
    /\ last.arg.syn /\ ~last.arg.rst
    /\ last.arg.seq_num = U32Max
    /\ last.arg.len = 1
    /\ last.arg.dest_port \notin open_ports
    /\ open_ports # {}
    /\ async_work[Len(async_work)].segment.rst
    /\ async_work[Len(async_work)].segment.ack_num = <<0, 1>>

\* C4: an RST to a port that is not open is swallowed: receive returns Ok and
\* enrols nothing.
C4_ClosedPortRstSwallowed ==
    [][(/\ last'.op = "receive"
        /\ IsUnicast(last'.arg.src_addr)
        /\ last'.arg.src_port # 0
        /\ last'.arg.dest_port # 0
        /\ last'.arg.dest_port \notin open_ports
        /\ last'.arg.rst)
       => (last'.result = "Ok" /\ async_work' = async_work)]_vars

\* C5: a datagram to a port that is not open leaves active_connections,
\* connections, open_ports, listening_on_ports and the pool as they were.
C5_ClosedPortCreatesNoState ==
    [][(last'.op = "receive" /\ last'.arg.dest_port \notin open_ports)
       => UNCHANGED <<active_connections, connections, open_ports,
                      listening_on_ports, available_private_ports>>]_vars

\* C5 witness: a SYN to a closed port was answered while a connection existed.
C5_Witness ==
    /\ last.op = "receive"
    /\ last.arg.syn
    /\ last.arg.dest_port \notin open_ports
    /\ last.result = "Ok"
    /\ DOMAIN active_connections # {}
    /\ async_work[Len(async_work)].segment.rst

\* C6: with the pool empty, connect fails with ResourceExhausted and changes
\* nothing: no connection, no open port, no work enrolled.
C6_ExhaustedConnectFails ==
    [][(last'.op = "connect" /\ available_private_ports = <<>>)
       => (/\ last'.result = "ResourceExhausted"
           /\ UNCHANGED <<peer, async_work, panicked>>)]_vars

\* C6 witness: connect failed with ResourceExhausted after connects had taken
\* every port of the pool.
C6_Witness ==
    /\ last.op = "connect"
    /\ last.result = "ResourceExhausted"
    /\ available_private_ports = <<>>
    /\ open_ports = PoolPorts
    /\ Len(async_work) = Cardinality(PoolPorts)

\* C7: once connects have taken every port of the pool and one of those ports
\* has been released, a connect to a remote without a connection succeeds and
\* uses that port, leaving the pool empty again.
C7_ReleasedPortServesConnect ==
    [][(/\ last'.op = "connect"
        /\ PoolPorts \subseteq open_ports
        /\ Len(available_private_ports) = 1
        /\ available_private_ports[1] \in PoolPorts
        /\ last'.arg \notin DOMAIN active_connections)
       => (/\ last'.result = "Ok"
           /\ available_private_ports' = <<>>
           /\ active_connections'[last'.arg].id.local.port = available_private_ports[1])]_vars

\* C8: a SYN+ACK(seq = S, ack = ISN + 1) from the remote of a SynSent connection,
\* to that connection's port, moves the connection to Established and enrols
\* exactly one ACK(seq = ISN + 1, ack = S + 1).
C8_SynAckEstablishes ==
    [][(/\ last'.op = "receive"
        /\ last'.arg.syn /\ last'.arg.ack /\ ~last'.arg.rst
        /\ \E r \in DOMAIN active_connections :
              /\ r = Endpoint(last'.arg.src_addr, last'.arg.src_port)
              /\ active_connections[r].state = "SynSent"
              /\ active_connections[r].id.local.port = last'.arg.dest_port
              /\ last'.arg.ack_num =
                    WrappingAdd(IsnGeneratorNext(active_connections[r].id), U32From(1)))
       => (/\ last'.result = "Ok"
           /\ active_connections'[Endpoint(last'.arg.src_addr, last'.arg.src_port)].state
                 = "Established"
           /\ EnrolsOne
           /\ Enrolled.segment.seq_num = last'.arg.ack_num
           /\ Enrolled.segment.ack_num = WrappingAdd(last'.arg.seq_num, U32From(1)))]_vars

\* C9: receive fails with Malformed, changing and enrolling nothing, for every
\* datagram from a broadcast, multicast or unspecified source and for every
\* datagram with a zero destination or source port.
C9_MalformedRejected ==
    [][(/\ last'.op = "receive"
        /\ \/ ~IsUnicast(last'.arg.src_addr)
           \/ last'.arg.dest_port = 0
           \/ last'.arg.src_port = 0)
       => (/\ last'.result = "Malformed"
           /\ UNCHANGED <<peer, async_work, panicked>>)]_vars

\* C10: a successful connect takes the port P at the front of the pool, marks P
\* open, adds one SynSent connection ((my_ipv4_addr, P), remote) and enrols one
\* unit that sends a SYN from P to the remote with the connection's ISN.
C10_ConnectOpensSynSent ==
    [][(last'.op = "connect" /\ last'.result = "Ok")
       => (/\ available_private_ports # <<>>
           /\ LET P == Head(available_private_ports)
                  remote == last'.arg
                  id == [local |-> [address |-> my_ipv4_addr, port |-> P],
                         remote |-> remote]
              IN  /\ available_private_ports' = Tail(available_private_ports)
                  /\ P \notin open_ports
                  /\ open_ports' = open_ports \cup {P}
                  /\ remote \notin DOMAIN active_connections
                  /\ DOMAIN active_connections' = DOMAIN active_connections \cup {remote}
                  /\ \A k \in DOMAIN active_connections :
                        active_connections'[k] = active_connections[k]
                  /\ active_connections'[remote] = [id |-> id, state |-> "SynSent"]
                  /\ connections' = connections
                  /\ EnrolsOne
                  /\ Enrolled.segment.syn
                  /\ ~Enrolled.segment.rst
                  /\ Enrolled.segment.src_port = P
                  /\ Enrolled.segment.dest_ipv4_addr = remote.address
                  /\ Enrolled.segment.dest_port = remote.port
                  /\ Enrolled.segment.seq_num = IsnGeneratorNext(id))]_vars

\* C10 witness: a second connect succeeded: two connections, two open ports,
\* two SYNs with different sequence numbers.
C10_Witness ==
    /\ last.op = "connect"
    /\ last.result = "Ok"
    /\ Cardinality(DOMAIN active_connections) = 2
    /\ Cardinality(open_ports) = 2
    /\ Len(async_work) = 2
    /\ async_work[1].segment.syn /\ async_work[2].segment.syn
    /\ async_work[1].segment.seq_num # async_work[2].segment.seq_num

\* The IncomingTcpConnection events among the steps of a tick.
IncomingTcpConnections(trace) ==
    SelectSeq(trace, LAMBDA s : s.step = "IncomingTcpConnection")

\* C11: a call of advance_clock that finds completed inbound connections on
\* its listening descriptors (all of them still listening) returns normally,
\* having surfaced one IncomingTcpConnection event for the connection it
\* accepted and drained every listening descriptor until none is ready.
C11_AcceptedConnectionSurfaced ==
    [][(/\ last'.op = "advance_clock"
        /\ \A i \in 1..Len(listening) : IsListening(sockets, listening[i])
        /\ \E i \in 1..Len(listening) : sockets[listening[i]].backlog > 0)
       => (/\ last'.result = "Ok"
           /\ Len(IncomingTcpConnections(last'.out)) >= 1
           /\ \A i \in 1..Len(listening) : sockets'[listening[i]].backlog = 0)]_vars

\* C12: Engine2::receive answers Misdelivered, handing the frame to no peer,
\* for every frame whose destination is neither the local link address nor
\* broadcast; every other frame with a known EtherType is handed to exactly
\* one peer, the ARP peer for Arp and the IPv4 peer for Ipv4.
C12_MisdeliveredOrDispatched ==
    (last.op = "engine_receive" /\ last.arg.attached) =>
        IF last.arg.dest_addr # LocalLinkAddr /\ last.arg.dest_addr # BroadcastLinkAddr
        THEN last.result = "Misdelivered" /\ last.out = <<>>
        ELSE /\ last.result # "Misdelivered"
             /\ last.arg.ether_type = "Arp" => last.out = <<"arp">>
             /\ last.arg.ether_type = "Ipv4" => last.out = <<"ipv4">>

\* A broadcast IPv4 frame has been handed to the IPv4 peer.
C12_Witness ==
    /\ last.op = "engine_receive"
    /\ last.arg.attached
    /\ last.arg.dest_addr = BroadcastLinkAddr
    /\ last.arg.ether_type = "Ipv4"
    /\ last.out = <<"ipv4">>

\* No listening descriptor of the engine has a completed connection waiting.
NoneReady ==
    \A i \in 1..Len(listening) :
        IsListening(sockets, listening[i]) => sockets[listening[i]].backlog = 0

\* C13: a call of advance_clock with no async work pending and no completed
\* inbound connection waiting changes nothing but the clock: the connections
\* and sockets, the connection tables, the open and listening ports, the pool
\* and the listening list stay as they are.  The state it leaves satisfies
\* the same condition, so that repeating the call has the effect of one call.
C13_IdleTickChangesNothing ==
    [][(last'.op = "advance_clock" /\ async_work = <<>> /\ NoneReady)
       => (/\ UNCHANGED <<peer, sockets, listening, async_work, completed>>
           /\ clock' = last'.arg
           /\ ~panicked'
           /\ async_work' = <<>>
           /\ NoneReady')]_vars

\* A tick has returned that found a listening descriptor, nothing enrolled
\* and no connection to accept.
C13_Witness ==
    /\ last.op = "advance_clock"
    /\ last.result = "Ok"
    /\ completed = 0
    /\ async_work = <<>>
    /\ Len(listening) >= 1
    /\ listening_on_ports # {}

\* C14: within every call advance_clock(now) the clock is set to now first,
\* then the ARP peer is polled, then the IPv4 peer is polled, and only then
\* are the listening descriptors tried; each peer is polled exactly once and
\* none before the clock is set.
C14_TickOrder ==
    last.op = "advance_clock" =>
        /\ clock = last.arg
        /\ Len(last.out) >= 3
        /\ last.out[1] = Step("clock", 0)
        /\ last.out[2] = Step("arp", 0)
        /\ last.out[3] = Step("ipv4", 0)
        /\ \A k \in 4..Len(last.out) : last.out[k].step = "tcp_accept"

\* A tick has set the clock, polled both peers and tried two descriptors.
C14_Witness ==
    /\ last.op = "advance_clock"
    /\ last.result = "Ok"
    /\ clock = MaxClock
    /\ Len(last.out) >= 5

\* C15: in every state reached by connect, acquire_private_port and
\* release_private_port no port is at once in available_private_ports and in
\* open_ports, and no port is in available_private_ports more than once.
C15_PortFreeOrOpen ==
    /\ \A i \in 1..Len(available_private_ports) :
           available_private_ports[i] \notin open_ports
    /\ \A i, j \in 1..Len(available_private_ports) :
           available_private_ports[i] = available_private_ports[j] => i = j

\* C16: an RST from the remote of a connection in SynSent to that
\* connection's local port surfaces ConnectionRefused once and closes the
\* connection: its entry leaves the connection table and its local port is
\* no longer open.
C16_RstClosesSynSent ==
    [][(/\ last'.op = "receive"
        /\ last'.arg.rst
        /\ \E r \in DOMAIN active_connections :
              /\ r = Endpoint(last'.arg.src_addr, last'.arg.src_port)
              /\ active_connections[r].state = "SynSent"
              /\ active_connections[r].id.local.port = last'.arg.dest_port)
       => (/\ last'.result = "Ok"
           /\ last'.out = <<"ConnectionRefused">>
           /\ Endpoint(last'.arg.src_addr, last'.arg.src_port)
                  \notin DOMAIN active_connections'
           /\ last'.arg.dest_port \notin open_ports')]_vars

\* C17: every call of advance_clock comes to an end: the loop that drains
\* the listening descriptors is left after finitely many iterations, also
\* when tcp_accept answers with an error for a descriptor of the list.
C17_TickTerminates ==
    last.op = "advance_clock" => last.result # "hang"

C19_ListeningListIsListening ==
    \A i \in 1..Len(listening) : IsListening(sockets, listening[i])

\* C20: after any sequence of connect calls the ports of the pool and the
\* open ports together are the ports of the initial pool, every open port is
\* the local port of exactly one entry of active_connections, and there are
\* as many open ports as entries.
C20_PortsConserved ==
    /\ {available_private_ports[i] : i \in 1..Len(available_private_ports)} \cup open_ports
           = PoolPorts
    /\ \A p \in open_ports :
           Cardinality({r \in DOMAIN active_connections :
                            active_connections[r].id.local.port = p}) = 1
    /\ Cardinality(open_ports) = Cardinality(DOMAIN active_connections)

=============================================================================
